---- MODULE Spec2Model ----
(***************************************************************************)
(* A model of formula-ocr's local_server.py: the Flask proxy that resolves *)
(* a vision model on a local Ollama backend, relays an image to it and     *)
(* cleans the LaTeX it answers.                                            *)
(*                                                                         *)
(* Strings are sequences of one-character strings, so that split, strip,   *)
(* startswith and slicing are computed as Python computes them.            *)
(***************************************************************************)
EXTENDS Naturals, Integers, Sequences, FiniteSets, TLC

VARIABLES
    text, once, twice, cstage,          \* clean_latex_output: input, 1st and 2nd pass
    prefs, listing, resolved, rstage,   \* model selection: list, backend listing, result
    endpoint, body, backend, calls, response, propagated   \* one HTTP request

vars == <<text, once, twice, cstage, prefs, listing, resolved, rstage,
          endpoint, body, backend, calls, response, propagated>>

cleanVars == <<text, once, twice, cstage>>
resolverVars == <<prefs, listing, resolved, rstage>>
serverVars == <<endpoint, body, backend, calls, response, propagated>>

(***************************************************************************)
(* Bounds of the model.                                                    *)
(***************************************************************************)
MaxLen == 5        \* longest input of clean_latex_output enumerated in full
MaxCore == 1       \* longest core of the wrapped inputs
MaxPrefs == 2      \* longest supported-model list besides VISION_MODELS
MaxListing == 2    \* longest backend listing handed to the selection loop
MaxServed == 2     \* longest backend listing a served request sees

(***************************************************************************)
(* Python's str operations.                                                *)
(***************************************************************************)
MinOf(S) == CHOOSE x \in S : \A y \in S : x <= y

MaxOf(S) == CHOOSE x \in S : \A y \in S : y <= x

Range(s) == {s[i] : i \in 1..Len(s)}

\* the characters str.strip() removes, among those of the alphabet
IsSpace(c) == c \in {" ", "\n"}

Strip(s) ==
    LET keep == {i \in 1..Len(s) : ~IsSpace(s[i])}
    IN  IF keep = {} THEN <<>> ELSE SubSeq(s, MinOf(keep), MaxOf(keep))

StartsWith(s, p) == Len(p) <= Len(s) /\ SubSeq(s, 1, Len(p)) = p

EndsWith(s, p) == Len(p) <= Len(s) /\ SubSeq(s, Len(s) - Len(p) + 1, Len(s)) = p

\* s[a:-b]
Slice(s, a, b) ==
    IF a + 1 > Len(s) - b THEN <<>> ELSE SubSeq(s, a + 1, Len(s) - b)

RECURSIVE Split(_, _)
\* s.split(sep) for a one-character sep
Split(s, sep) ==
    LET at == {i \in 1..Len(s) : s[i] = sep}
    IN  IF at = {} THEN <<s>>
        ELSE <<SubSeq(s, 1, MinOf(at) - 1)>>
                 \o Split(SubSeq(s, MinOf(at) + 1, Len(s)), sep)

RECURSIVE Join(_, _)
\* sep.join(parts)
Join(parts, sep) ==
    IF parts = <<>> THEN <<>>
    ELSE IF Len(parts) = 1 THEN parts[1]
    ELSE parts[1] \o sep \o Join(Tail(parts), sep)

(***************************************************************************)
(* clean_latex_output                                                      *)
(***************************************************************************)
\* SANY accepts no backtick inside a string: the character is named instead
Backtick == "backtick"

Fence == <<Backtick, Backtick, Backtick>>
Dollar == <<"$">>
Dollars == <<"$", "$">>
BracketOpen == <<"\\", "[">>
BracketClose == <<"\\", "]">>
Newline == <<"\n">>

NotFenceLine(l) == ~StartsWith(Strip(l), Fence)

StripFences(t) ==
    IF StartsWith(t, Fence)
    THEN Join(SelectSeq(Split(t, "\n"), NotFenceLine), Newline)
    ELSE t

StripDollars(t) ==
    IF StartsWith(t, Dollars) /\ EndsWith(t, Dollars) THEN Slice(t, 2, 2)
    ELSE IF StartsWith(t, Dollar) /\ EndsWith(t, Dollar) THEN Slice(t, 1, 1)
    ELSE t

StripBrackets(t) ==
    IF StartsWith(t, BracketOpen) /\ EndsWith(t, BracketClose) THEN Slice(t, 2, 2)
    ELSE t

\* the result is returned without the last strip()
CleanLatexOutputUnstripped(t) ==
    IF t = <<>> THEN <<>>
    ELSE StripBrackets(StripDollars(StripFences(Strip(t))))

CleanLatexOutput(t) ==
    IF t = <<>> THEN <<>>
    ELSE Strip(StripBrackets(StripDollars(StripFences(Strip(t)))))

(***************************************************************************)
(* Inputs of clean_latex_output: every string over the alphabet up to      *)
(* MaxLen, and short cores wrapped twice in the wrappers the function      *)
(* knows (which reaches the longer fenced and nested inputs).              *)
(***************************************************************************)
Alphabet == {"$", "\\", "[", "]", Backtick, "\n", " ", "a"}

Strings(n) == UNION {[1..k -> Alphabet] : k \in 0..n}

Wrappers ==
    { <<<<>>, <<>>>>, <<Dollar, Dollar>>, <<Dollars, Dollars>>,
      <<BracketOpen, BracketClose>>, <<Fence \o Newline, Newline \o Fence>>,
      <<<<" ">>, <<" ">>>> }

Wrap(w, s) == w[1] \o s \o w[2]

WrappedInputs ==
    {Wrap(w1, Wrap(w2, c)) : w1 \in Wrappers, w2 \in Wrappers, c \in Strings(MaxCore)}

CleanInputs == Strings(MaxLen) \cup WrappedInputs

(***************************************************************************)
(* Model names, and get_available_model's selection loop.                  *)
(***************************************************************************)
Llama32Vision == <<"l", "l", "a", "m", "a", "3", ".", "2", "-", "v", "i", "s", "i", "o", "n">>
Llava == <<"l", "l", "a", "v", "a">>
Llava13b == <<"l", "l", "a", "v", "a", ":", "1", "3", "b">>
Llava7b == <<"l", "l", "a", "v", "a", ":", "7", "b">>
Bakllava == <<"b", "a", "k", "l", "l", "a", "v", "a">>
MinicpmV == <<"m", "i", "n", "i", "c", "p", "m", "-", "v">>
Moondream == <<"m", "o", "o", "n", "d", "r", "e", "a", "m">>

VISION_MODELS ==
    <<Llama32Vision, Llava, Llava13b, Llava7b, Bakllava, MinicpmV, Moondream>>

\* names a backend may list
LlavaPhi3Latest == <<"l", "l", "a", "v", "a", "-", "p", "h", "i", "3", ":", "l", "a", "t", "e", "s", "t">>
MoondreamLatest == <<"m", "o", "o", "n", "d", "r", "e", "a", "m", ":", "l", "a", "t", "e", "s", "t">>
MistralLatest == <<"m", "i", "s", "t", "r", "a", "l", ":", "l", "a", "t", "e", "s", "t">>
Llama32Vision11b == <<"l", "l", "a", "m", "a", "3", ".", "2", "-", "v", "i", "s", "i", "o", "n", ":", "1", "1", "b">>

\* Python's None, and a value that is not None
None == [some |-> FALSE, name |-> <<>>]

Some(n) == [some |-> TRUE, name |-> n]

\* name.split(":")[0]
BaseName(name) == Split(name, ":")[1]

\* model_names = [m["name"].split(":")[0] for m in models]
ModelNames(models) == [j \in 1..Len(models) |-> BaseName(models[j])]

RECURSIVE SelectModelByEntry(_, _, _)
\* the entry itself, tag included, is looked up among the listed base names
SelectModelByEntry(vision_models, models, i) ==
    IF i > Len(vision_models) THEN None
    ELSE LET vm == vision_models[i]
             starts == {j \in 1..Len(models) : StartsWith(models[j], vm)}
         IN  IF vm \in Range(ModelNames(models)) /\ starts # {}
             THEN Some(models[MinOf(starts)])
             ELSE SelectModelByEntry(vision_models, models, i + 1)

RECURSIVE SelectModel(_, _, _)
\* the loop over vision_models from its i-th entry on: the first listed name
\* that starts with the base name of the first entry whose base name is listed
SelectModel(vision_models, models, i) ==
    IF i > Len(vision_models) THEN None
    ELSE LET base_name == BaseName(vision_models[i])
             starts == {j \in 1..Len(models) : StartsWith(models[j], base_name)}
         IN  IF base_name \in Range(ModelNames(models)) /\ starts # {}
             THEN Some(models[MinOf(starts)])
             ELSE SelectModel(vision_models, models, i + 1)

Seqs(S, n) == UNION {[1..k -> S] : k \in 0..n}

PrefPool == {Llava, Llava13b, Llava7b, Moondream, Llama32Vision}

PrefLists == {VISION_MODELS} \cup Seqs(PrefPool, MaxPrefs)

ListedPool ==
    {Llava7b, Llava13b, LlavaPhi3Latest, MoondreamLatest, MistralLatest,
     Llama32Vision11b, Bakllava}

Listings == Seqs(ListedPool, MaxListing)

(***************************************************************************)
(* The backend as one request sees it: what each call to Ollama does.      *)
(*   exc      the exception requests raises, or "none"                     *)
(*   ok       response.ok                                                  *)
(*   payload  the shape of the JSON in the response                        *)
(*   models   the names of a well-formed listing                           *)
(*   text     a well-formed generation's "response" string                 *)
(***************************************************************************)
Outcome(exc, ok, payload, models, txt) ==
    [exc |-> exc, ok |-> ok, payload |-> payload, models |-> models, text |-> txt]

\* requests.exceptions: ConnectTimeout is a ConnectionError and a Timeout
RequestsExceptions == {"ConnectionError", "ConnectTimeout", "ReadTimeout"}

IsTimeout(e) == e \in {"ConnectTimeout", "ReadTimeout"}

IsConnectionError(e) == e \in {"ConnectionError", "ConnectTimeout"}

ServedPool == {Llava7b, LlavaPhi3Latest, MistralLatest, MoondreamLatest}

ServedListings == Seqs(ServedPool, MaxServed)

\* GET /api/tags: a failure to connect or to answer in time, a non-success
\* status, a body that is not {"models": [{"name": str}, ...]}, or a listing
TagsOutcomes ==
    {Outcome(e, FALSE, "none", <<>>, <<>>) : e \in RequestsExceptions}
    \cup {Outcome("none", FALSE, "none", <<>>, <<>>)}
    \cup {Outcome("none", TRUE, "malformed", <<>>, <<>>)}
    \cup {Outcome("none", TRUE, "listing", m, <<>>) : m \in ServedListings}

\* health() reads only response.ok of its own call to /api/tags
ProbeOutcomes ==
    {Outcome(e, FALSE, "none", <<>>, <<>>) : e \in RequestsExceptions}
    \cup {Outcome("none", FALSE, "none", <<>>, <<>>)}
    \cup {Outcome("none", TRUE, "malformed", <<>>, <<>>)}
    \cup {Outcome("none", TRUE, "listing", <<>>, <<>>)}

Space == <<" ">>

GenTexts ==
    { <<>>, Space, <<"a">>, Space \o <<"a">> \o Newline, Dollars,
      Dollar \o <<"a">> \o Dollar, BracketOpen \o <<"a">> \o BracketClose,
      Fence \o Newline \o <<"a">> \o Newline \o Fence,
      Dollars \o Dollar \o <<"a">> \o Dollar \o Dollars }

\* POST /api/generate: a failure, a non-success status, a body that is not
\* JSON, not an object, without "response", with a "response" that is no
\* string, or a text
GenOutcomes ==
    {Outcome(e, FALSE, "none", <<>>, <<>>) : e \in RequestsExceptions}
    \cup {Outcome("none", FALSE, "none", <<>>, <<>>)}
    \cup {Outcome("none", TRUE, p, <<>>, <<>>) :
             p \in {"notjson", "notobject", "missing", "nonstring"}}
    \cup {Outcome("none", TRUE, "text", <<>>, t) : t \in GenTexts}

NoOutcome == Outcome("none", FALSE, "unused", <<>>, <<>>)

\* one call made to the backend
Call(api, timeout, model, outcome) ==
    [api |-> api, timeout |-> timeout, model |-> model, outcome |-> outcome]

TagsTimeout == 5
ProbeTimeout == 3
GenerateTimeout == 180

(***************************************************************************)
(* What get_json() hands recognize(): kind is the JSON type ("none" when   *)
(* get_json returns None, "invalid" when it raises), truthy is bool(data), *)
(* hasImage is 'image' in data.                                            *)
(***************************************************************************)
Body(kind, truthy, hasImage) == [kind |-> kind, truthy |-> truthy, hasImage |-> hasImage]

NoBody == Body("none", FALSE, FALSE)

Bodies ==
    { NoBody, Body("invalid", FALSE, FALSE),
      Body("object", FALSE, FALSE), Body("object", TRUE, FALSE), Body("object", TRUE, TRUE),
      Body("number", FALSE, FALSE), Body("number", TRUE, FALSE),
      Body("bool", FALSE, FALSE), Body("bool", TRUE, FALSE),
      Body("string", FALSE, FALSE), Body("string", TRUE, FALSE), Body("string", TRUE, TRUE),
      Body("array", FALSE, FALSE), Body("array", TRUE, FALSE), Body("array", TRUE, TRUE) }

(***************************************************************************)
(* Responses: the HTTP status and the keys and values of the JSON body.    *)
(***************************************************************************)
Response(code, keys, status, success, error, latex, model) ==
    [code |-> code, keys |-> keys, status |-> status, success |-> success,
     error |-> error, latex |-> latex, model |-> model]

NoResponse == Response(0, {}, "", FALSE, "", <<>>, None)

\* jsonify({'error': ..., 'success': False}), code
ErrorResponse(code, error) ==
    Response(code, {"error", "success"}, "", FALSE, error, <<>>, None)

\* jsonify({'status': ..., 'error': ...}), 503
HealthError(status, error) ==
    Response(503, IF status = "no_model" THEN {"status", "error", "available_models"}
                  ELSE {"status", "error"},
             status, FALSE, error, <<>>, None)

\* what a handler did: the response it returned or the exception it let
\* through, and the calls it made to the backend
Returned(resp, made) == [resp |-> resp, exc |-> "none", calls |-> made]

Raised(exc, made) == [resp |-> NoResponse, exc |-> exc, calls |-> made]

\* bool(model) of what get_available_model returned
Truthy(model) == model.some /\ model.name # <<>>

(***************************************************************************)
(* get_available_model                                                     *)
(***************************************************************************)
\* the body of the try block: the value returned or the exception raised
GetAvailableModelTry(tags) ==
    IF tags.exc # "none" THEN [exc |-> tags.exc, val |-> None]
    ELSE IF tags.ok
         THEN IF tags.payload = "listing"
              THEN [exc |-> "none", val |-> SelectModel(VISION_MODELS, tags.models, 1)]
              ELSE [exc |-> "ValueError", val |-> None]
         ELSE [exc |-> "none", val |-> None]

\* a try block whose handlers are missing
GetAvailableModelUncaught(tags) == GetAvailableModelTry(tags)

\* except: return None
GetAvailableModel(tags) ==
    LET r == GetAvailableModelTry(tags)
    IN  IF r.exc # "none" THEN [exc |-> "none", val |-> None] ELSE r

(***************************************************************************)
(* GET /health                                                             *)
(***************************************************************************)
HealthTry(probe, tags) ==
    LET first == <<Call("tags", ProbeTimeout, <<>>, probe)>>
    IN  IF probe.exc # "none" THEN Raised(probe.exc, first)
        ELSE IF probe.ok
        THEN LET made == first \o <<Call("tags", TagsTimeout, <<>>, tags)>>
                 r == GetAvailableModel(tags)
             IN  IF r.exc # "none" THEN Raised(r.exc, made)
                 ELSE IF Truthy(r.val)
                 THEN Returned(Response(200, {"status", "service", "model", "version"},
                                        "ok", FALSE, "", <<>>, r.val), made)
                 ELSE Returned(HealthError("no_model", "no vision model"), made)
        ELSE Returned(HealthError("error", "Ollama answered abnormally"), first)

HealthHandler(probe, tags) ==
    LET r == HealthTry(probe, tags)
    IN  IF r.exc = "none" THEN r
        ELSE IF IsConnectionError(r.exc)
        THEN Returned(HealthError("error", "Ollama is not running"), r.calls)
        ELSE Returned(HealthError("error", "str(e)"), r.calls)

(***************************************************************************)
(* POST /recognize                                                         *)
(***************************************************************************)
\* the answer is returned without the test of an empty result
RelayUnchecked(model, gen, made) ==
    IF ~gen.ok THEN Returned(ErrorResponse(500, "Ollama error: status"), made)
    ELSE IF gen.payload \in {"notjson", "notobject", "nonstring"}
    THEN Raised(IF gen.payload = "notjson" THEN "ValueError" ELSE "AttributeError", made)
    ELSE LET raw == IF gen.payload = "missing" THEN <<>> ELSE gen.text
         IN  Returned(Response(200, {"latex", "success", "model"}, "", TRUE, "",
                               CleanLatexOutput(Strip(raw)), Some(model)), made)

\* from the generation call's response to the answer (lines 144-166)
Relay(model, gen, made) ==
    IF ~gen.ok THEN Returned(ErrorResponse(500, "Ollama error: status"), made)
    ELSE IF gen.payload \in {"notjson", "notobject", "nonstring"}
    THEN Raised(IF gen.payload = "notjson" THEN "ValueError" ELSE "AttributeError", made)
    ELSE LET raw == IF gen.payload = "missing" THEN <<>> ELSE gen.text
             latex == CleanLatexOutput(Strip(raw))
         IN  IF latex = <<>>
             THEN Returned(ErrorResponse(400, "cannot recognize the formula"), made)
             ELSE Returned(Response(200, {"latex", "success", "model"}, "", TRUE, "",
                                    latex, Some(model)), made)

\* the generation call made again after it failed
GenerateRetrying(model, gen, made) ==
    LET now == made \o <<Call("generate", GenerateTimeout, model, gen)>>
    IN  IF gen.exc # "none"
        THEN Raised(gen.exc, now \o <<Call("generate", GenerateTimeout, model, gen)>>)
        ELSE Relay(model, gen, now)

\* the generation call (lines 127-141) and what follows it
Generate(model, gen, made) ==
    LET now == made \o <<Call("generate", GenerateTimeout, model, gen)>>
    IN  IF gen.exc # "none" THEN Raised(gen.exc, now) ELSE Relay(model, gen, now)

RecognizeTry(data, tags, gen) ==
    IF data.kind = "invalid" THEN Raised("BadRequest", <<>>)
    ELSE IF ~data.truthy THEN Returned(ErrorResponse(400, "Missing image data"), <<>>)
    ELSE IF data.kind \in {"number", "bool"} THEN Raised("TypeError", <<>>)
    ELSE IF ~data.hasImage THEN Returned(ErrorResponse(400, "Missing image data"), <<>>)
    ELSE LET made == <<Call("tags", TagsTimeout, <<>>, tags)>>
             r == GetAvailableModel(tags)
         IN  IF r.exc # "none" THEN Raised(r.exc, made)
             ELSE IF ~Truthy(r.val)
             THEN Returned(ErrorResponse(503, "no vision model"), made)
             ELSE IF data.kind # "object" THEN Raised("TypeError", made)
             ELSE Generate(r.val.name, gen, made)

\* the handlers in the other order: except Exception comes first
RecognizeExceptSwapped(r) ==
    IF r.exc = "none" THEN r
    ELSE Returned(ErrorResponse(500, "str(e)"), r.calls)

\* except requests.exceptions.Timeout / except Exception
RecognizeExcept(r) ==
    IF r.exc = "none" THEN r
    ELSE IF IsTimeout(r.exc)
    THEN Returned(ErrorResponse(504, "recognition timed out"), r.calls)
    ELSE Returned(ErrorResponse(500, "str(e)"), r.calls)

RecognizeHandler(data, tags, gen) == RecognizeExcept(RecognizeTry(data, tags, gen))

(***************************************************************************)
(* GET /info                                                               *)
(***************************************************************************)
InfoHandler(tags) ==
    LET made == <<Call("tags", TagsTimeout, <<>>, tags)>>
        r == GetAvailableModel(tags)
    IN  IF r.exc # "none" THEN Raised(r.exc, made)
        ELSE Returned(Response(200, {"name", "description", "current_model",
                                     "supported_models", "endpoints", "features"},
                               "", FALSE, "", <<>>, r.val), made)

(***************************************************************************)
(* The values the variables of a component hold while another component    *)
(* is the one under check.                                                 *)
(***************************************************************************)
IdleClean == text = <<>> /\ once = <<>> /\ twice = <<>> /\ cstage = 0

IdleResolver == prefs = <<>> /\ listing = <<>> /\ resolved = None /\ rstage = 0

IdleServer ==
    /\ endpoint = "none"
    /\ body = NoBody
    /\ backend = [tags |-> <<>>, gen |-> NoOutcome]
    /\ calls = <<>>
    /\ response = NoResponse
    /\ propagated = "none"

(***************************************************************************)
(* SpecClean: clean_latex_output applied to an input, then to its own      *)
(* output.                                                                 *)
(***************************************************************************)
InitClean ==
    /\ text \in CleanInputs
    /\ once = <<>>
    /\ twice = <<>>
    /\ cstage = 0
    /\ IdleResolver
    /\ IdleServer

CleanOnce ==
    /\ cstage = 0
    /\ once' = CleanLatexOutput(text)
    /\ cstage' = 1
    /\ UNCHANGED <<text, twice, resolverVars, serverVars>>

CleanTwice ==
    /\ cstage = 1
    /\ twice' = CleanLatexOutput(once)
    /\ cstage' = 2
    /\ UNCHANGED <<text, once, resolverVars, serverVars>>

NextClean == CleanOnce \/ CleanTwice

SpecClean == InitClean /\ [][NextClean]_vars

(***************************************************************************)
(* SpecResolver: the selection loop applied to a supported-model list and  *)
(* a listing the backend returned.                                         *)
(***************************************************************************)
InitResolver ==
    /\ prefs \in PrefLists
    /\ listing \in Listings
    /\ resolved = None
    /\ rstage = 0
    /\ IdleClean
    /\ IdleServer

Select ==
    /\ rstage = 0
    /\ resolved' = SelectModel(prefs, listing, 1)
    /\ rstage' = 1
    /\ UNCHANGED <<prefs, listing, cleanVars, serverVars>>

NextResolver == Select

SpecResolver == InitResolver /\ [][NextResolver]_vars

(***************************************************************************)
(* Spec: the server answers one request, then the next; the client chooses *)
(* the endpoint and the body, the backend what each of its calls does.     *)
(***************************************************************************)
Init == IdleClean /\ IdleResolver /\ IdleServer

Health ==
    /\ endpoint = "none"
    /\ \E probe \in ProbeOutcomes, tags \in TagsOutcomes :
           LET r == HealthHandler(probe, tags)
           IN  /\ endpoint' = "health"
               /\ body' = NoBody
               /\ backend' = [tags |-> <<probe, tags>>, gen |-> NoOutcome]
               /\ calls' = r.calls
               /\ response' = r.resp
               /\ propagated' = r.exc
    /\ UNCHANGED <<cleanVars, resolverVars>>

Recognize ==
    /\ endpoint = "none"
    /\ \E data \in Bodies, tags \in TagsOutcomes, gen \in GenOutcomes :
           LET r == RecognizeHandler(data, tags, gen)
           IN  /\ endpoint' = "recognize"
               /\ body' = data
               /\ backend' = [tags |-> <<tags>>, gen |-> gen]
               /\ calls' = r.calls
               /\ response' = r.resp
               /\ propagated' = r.exc
    /\ UNCHANGED <<cleanVars, resolverVars>>

Info ==
    /\ endpoint = "none"
    /\ \E tags \in TagsOutcomes :
           LET r == InfoHandler(tags)
           IN  /\ endpoint' = "info"
               /\ body' = NoBody
               /\ backend' = [tags |-> <<tags>>, gen |-> NoOutcome]
               /\ calls' = r.calls
               /\ response' = r.resp
               /\ propagated' = r.exc
    /\ UNCHANGED <<cleanVars, resolverVars>>

\* the response is sent: nothing of the request is kept
Finish ==
    /\ endpoint # "none"
    /\ endpoint' = "none"
    /\ body' = NoBody
    /\ backend' = [tags |-> <<>>, gen |-> NoOutcome]
    /\ calls' = <<>>
    /\ response' = NoResponse
    /\ propagated' = "none"
    /\ UNCHANGED <<cleanVars, resolverVars>>

Next == Health \/ Recognize \/ Info \/ Finish

Spec == Init /\ [][Next]_vars

(***************************************************************************)
(* Properties of the selection loop (SpecResolver).                        *)
(***************************************************************************)
BaseNames(names) == {BaseName(names[j]) : j \in 1..Len(names)}

\* the first name of M whose base name is the base name of the earliest
\* entry of L that has its base name among those of M
BaseMatch(L, M) ==
    LET hits == {i \in 1..Len(L) : BaseName(L[i]) \in BaseNames(M)}
    IN  IF hits = {} THEN None
        ELSE LET base == BaseName(L[MinOf(hits)])
             IN  Some(M[MinOf({j \in 1..Len(M) : BaseName(M[j]) = base})])

\* C1: for every supported-model list and every listing returned, the loop
\* returns the first listed name whose base name equals the earliest
\* preferred base name that is listed, and None when none is listed.
C1_ReturnsBaseMatch == rstage = 1 => resolved = BaseMatch(prefs, listing)

RECURSIVE DistinctBases(_, _)
\* the base names of L in order, each kept where it first occurs
DistinctBases(L, seen) ==
    IF L = <<>> THEN <<>>
    ELSE IF BaseName(Head(L)) \in seen THEN DistinctBases(Tail(L), seen)
    ELSE <<BaseName(Head(L))>> \o DistinctBases(Tail(L), seen \cup {BaseName(Head(L))})

VisionModelsUntagged == <<Llama32Vision, Llava, Bakllava, MinicpmV, Moondream>>

\* C10: the tag of an entry of the supported-model list never influences the
\* selection: the result is that of the list's distinct base names in order,
\* and with VISION_MODELS it is that of the list without llava:13b and
\* llava:7b.
C10_TagsOfPreferencesIgnored ==
    rstage = 1 =>
        /\ resolved = SelectModel(DistinctBases(prefs, {}), listing, 1)
        /\ prefs = VISION_MODELS =>
               resolved = SelectModel(VisionModelsUntagged, listing, 1)

\* llava:7b is listed before llava:13b and is the one returned
C10_Witness ==
    /\ rstage = 1
    /\ prefs = VISION_MODELS
    /\ listing = <<Llava7b, Llava13b>>
    /\ resolved = Some(Llava7b)

(***************************************************************************)
(* Properties of clean_latex_output (SpecClean).                           *)
(***************************************************************************)
\* C2 as stated: clean_latex_output is idempotent, on every input string
\* over the alphabet.
C2_Idempotent == cstage = 2 => twice = once

\* a fence at the start, or a pair of delimiters around the text
Wrapped(t) ==
    \/ StartsWith(t, Fence)
    \/ StartsWith(t, Dollar) /\ EndsWith(t, Dollar)
    \/ StartsWith(t, BracketOpen) /\ EndsWith(t, BracketClose)

\* C2 as amended: a second pass changes nothing when the first pass left no
\* fence at the start and no pair of delimiters around its result.
C2_IdempotentOnceUnwrapped == cstage = 2 /\ ~Wrapped(once) => twice = once

\* a fenced "$a$" is cleaned to "a", and stays "a"
C2_Witness ==
    /\ cstage = 2
    /\ text = Fence \o Newline \o Dollar \o <<"a">> \o Dollar \o Newline \o Fence
    /\ once = <<"a">>
    /\ ~Wrapped(once)
    /\ twice = <<"a">>

(***************************************************************************)
(* Properties of the handlers (Spec).                                      *)
(***************************************************************************)
Made(api) == {i \in 1..Len(calls) : calls[i].api = api}

\* a call that did not end with a success status and a well-formed body
Failed(o) == o.exc # "none" \/ ~o.ok \/ o.payload \in {"malformed", "notjson", "notobject"}

SupportedBases == BaseNames(VISION_MODELS)

\* a listing was returned and a supported base name is in it
ListsSupported(o) ==
    /\ ~Failed(o)
    /\ o.payload = "listing"
    /\ BaseNames(o.models) \cap SupportedBases # {}

\* C3: /health answers "no_model" only when the backend is reachable and its
\* listing holds no supported model, and answers 503 "error" whenever a
\* listing call of the request fails.
C3_HealthTellsNoModelFromError ==
    endpoint = "health" =>
        /\ response.status = "no_model" =>
               /\ response.code = 503
               /\ \A i \in 1..Len(calls) : ~Failed(calls[i].outcome)
               /\ ~ListsSupported(calls[Len(calls)].outcome)
        /\ (\E i \in 1..Len(calls) : Failed(calls[i].outcome)) =>
               response.code = 503 /\ response.status = "error"

\* C4: whenever a backend call made for a /recognize request times out, the
\* listing call as well as the generation call, the request ends with the
\* timeout error, which no other failure produces.
C4_EveryTimeoutIsReported ==
    endpoint = "recognize" =>
        LET timedOut == \E i \in 1..Len(calls) : IsTimeout(calls[i].outcome.exc)
            timeoutError == response.code = 504 /\ response.error = "recognition timed out"
        IN  timedOut <=> timeoutError

ImagePresent == body.kind = "object" /\ body.hasImage

ModelResolved == ListsSupported(backend.tags[1])

\* C5: with an image and a supported model, /recognize answers 504 with
\* success:false when the generation call times out, and answers 504 in no
\* other situation.
C5_GenerateTimeoutIs504 ==
    endpoint = "recognize" =>
        /\ ImagePresent /\ ModelResolved /\ IsTimeout(backend.gen.exc) =>
               /\ response.code = 504
               /\ "success" \in response.keys
               /\ response.success = FALSE
        /\ response.code = 504 =>
               ImagePresent /\ ModelResolved /\ IsTimeout(backend.gen.exc)

C5_Witness ==
    /\ endpoint = "recognize"
    /\ ImagePresent
    /\ ModelResolved
    /\ backend.gen.exc = "ReadTimeout"
    /\ response.code = 504

\* C6: a /recognize body without an image field (no body, an empty object,
\* an object with other keys, a JSON value that is no object) is answered
\* 400 with success:false, whatever the backend does.
C6_MissingImageIs400 ==
    endpoint = "recognize" /\ body.kind # "invalid" /\ ~ImagePresent =>
        /\ response.code = 400
        /\ "success" \in response.keys
        /\ response.success = FALSE

\* C7: every request ends with a JSON response and an HTTP status, no
\* exception leaves a handler, and every response of /recognize other than
\* 200 carries an error message and success:false.
C7_EveryRequestIsAnswered ==
    endpoint # "none" =>
        /\ propagated = "none"
        /\ response.code \in {200, 400, 500, 503, 504}
        /\ response.keys # {}
        /\ endpoint = "recognize" /\ response.code # 200 =>
               /\ {"error", "success"} \subseteq response.keys
               /\ response.error # ""
               /\ response.success = FALSE

\* the generation's body is no JSON: the exception becomes a 500
C7_Witness ==
    /\ endpoint = "recognize"
    /\ Made("generate") # {}
    /\ backend.gen.payload = "notjson"
    /\ propagated = "none"
    /\ response.code = 500
    /\ response.error = "str(e)"

\* C8: a /recognize request makes at most one listing call and at most one
\* generation call, in that order, the generation call only after the
\* listing returned a supported model; no call is made again.
C8_SingleAttempt ==
    endpoint = "recognize" =>
        /\ Cardinality(Made("tags")) <= 1
        /\ Cardinality(Made("generate")) <= 1
        /\ Len(calls) = Cardinality(Made("tags")) + Cardinality(Made("generate"))
        /\ Made("generate") # {} =>
               /\ Made("tags") = {1}
               /\ Made("generate") = {2}
               /\ ListsSupported(calls[1].outcome)

\* the generation call failed and was not made again
C8_Witness ==
    /\ endpoint = "recognize"
    /\ Len(calls) = 2
    /\ calls[2].api = "generate"
    /\ calls[2].outcome.exc = "ConnectionError"

\* the generation call returned a body with a "response" string, or without
\* the field
Generated ==
    /\ Made("generate") # {}
    /\ backend.gen.exc = "none"
    /\ backend.gen.ok
    /\ backend.gen.payload \in {"text", "missing"}

\* C9: a 200 of /recognize has success:true, the non-empty latex that
\* clean_latex_output makes of the backend's text, and the model name sent
\* in the generation call; an empty cleaned text is answered 400.
C9_SuccessCarriesCleanLatex ==
    endpoint = "recognize" =>
        /\ response.code = 200 =>
               /\ {"latex", "success", "model"} \subseteq response.keys
               /\ response.success = TRUE
               /\ Generated
               /\ response.latex # <<>>
               /\ response.latex = CleanLatexOutput(backend.gen.text)
               /\ response.model = Some(calls[2].model)
        /\ Generated /\ CleanLatexOutput(backend.gen.text) = <<>> =>
               response.code = 400

\* a fenced answer is returned without its fence
C9_Witness ==
    /\ endpoint = "recognize"
    /\ response.code = 200
    /\ backend.gen.text = Fence \o Newline \o <<"a">> \o Newline \o Fence
    /\ response.latex = <<"a">>
    /\ response.model = Some(Llava7b)

====
